---- MODULE Spec2Model ----
(***************************************************************************)
(* A model of tool-sync's configuration decoder (src/config/toml.rs), its  *)
(* archive extractor (src/sync/archive.rs), the progress reporter's column *)
(* sizing (src/sync/progress.rs) and the builtin registry (src/sync/db.rs).*)
(***************************************************************************)
EXTENDS Integers, Sequences, FiniteSets, TLC

VARIABLES
    readable,   \* config: whether fs::read_to_string(config_path) succeeds
    contents,   \* config: the text of the configuration, as a sequence of lines
    cfg_pc,     \* config: "start", or the entry point that was called
    cfg_res,    \* config: the Result<Config, TomlError> returned
    asset_name, \* archive: the asset's file name, a sequence of characters
    exe_name,   \* archive: the executable's name
    tmp_dir,    \* archive: the temporary directory
    archive_path, \* archive: where the downloaded file is
    container,  \* archive: what the file at archive_path holds
    tmp_ok,     \* archive: whether files can be created below tmp_dir
    disk0,      \* archive: the files below tmp_dir before unpack
    disk,       \* archive: the files below tmp_dir now
    archive,    \* archive: the Option<Archive> of Archive::from
    ar_pc,      \* archive: position in Archive::from / unpack
    ar_pos,     \* archive: chunks copied (zip) or entries unpacked (tar)
    ar_fault,   \* archive: whether a read or write failed underway
    ar_res,     \* archive: the Result<PathBuf, io::Error> of unpack
    tools,      \* progress: the tool names given to SyncProgress::new
    tags,       \* progress: the tag names given to SyncProgress::new
    pr_pc,      \* progress: "new", "done" or "panicked"
    progress,   \* progress: the SyncProgress built
    tool_name,  \* db: the name looked up
    db_calls,   \* db: how many times lookup_tool was called on it
    db_prev,    \* db: what the call before the last returned
    db_res      \* db: what the last call returned

cfg_vars == <<readable, contents, cfg_pc, cfg_res>>
ar_vars == <<asset_name, exe_name, tmp_dir, archive_path, container, tmp_ok,
             disk0, disk, archive, ar_pc, ar_pos, ar_fault, ar_res>>
pr_vars == <<tools, tags, pr_pc, progress>>
db_vars == <<tool_name, db_calls, db_prev, db_res>>
vars == <<cfg_vars, ar_vars, pr_vars, db_vars>>

\* ------------------------------------------------------------------------
\* Option and Result
\* ------------------------------------------------------------------------

None == <<>>
Some(x) == <<x>>

Ok(x) == [ok |-> TRUE, val |-> x]
Err(e) == [ok |-> FALSE, val |-> e]

\* ------------------------------------------------------------------------
\* toml::Value
\* ------------------------------------------------------------------------

EmptyTable == [k \in {} |-> 0]

VString(s) == [kind |-> "String", str |-> s, num |-> 0, tab |-> EmptyTable]
VInteger(n) == [kind |-> "Integer", str |-> "", num |-> n, tab |-> EmptyTable]
VArray == [kind |-> "Array", str |-> "", num |-> 0, tab |-> EmptyTable]
VTable(t) == [kind |-> "Table", str |-> "", num |-> 0, tab |-> t]

\* Value::get with a string index: only a table can be indexed by a key
get(v, key) ==
    IF v.kind = "Table" /\ key \in DOMAIN v.tab THEN Some(v.tab[key]) ELSE None

\* Map::get
map_get(table, key) ==
    IF key \in DOMAIN table THEN Some(table[key]) ELSE None

as_str(v) == IF v.kind = "String" THEN Some(v.str) ELSE None

as_table(v) == IF v.kind = "Table" THEN Some(v.tab) ELSE None

\* ------------------------------------------------------------------------
\* The text of a configuration: contents.parse::<Value>()
\* A document is a sequence of lines: `a.b = value`, `[a.b]`, or a line
\* that is no TOML at all.
\* ------------------------------------------------------------------------

KV(path, v) == [kind |-> "kv", path |-> path, val |-> v]
Header(path) == [kind |-> "header", path |-> path, val |-> VTable(EmptyTable)]
Garbage == [kind |-> "garbage", path |-> <<>>, val |-> VArray]

TableWith(t, k, v) == [x \in DOMAIN t \cup {k} |-> IF x = k THEN v ELSE t[x]]

\* Insert v at the dotted path below table t; a key defined twice, or a path
\* through a value that is no table, is a syntax error
RECURSIVE TableInsert(_, _, _)
TableInsert(t, path, v) ==
    LET k == Head(path) IN
    IF Len(path) = 1
    THEN IF k \in DOMAIN t THEN Err("duplicate key") ELSE Ok(TableWith(t, k, v))
    ELSE IF k \in DOMAIN t /\ t[k].kind # "Table"
         THEN Err("dotted key through a non-table")
         ELSE LET sub == IF k \in DOMAIN t THEN t[k].tab ELSE EmptyTable
                  r == TableInsert(sub, Tail(path), v)
              IN IF r.ok THEN Ok(TableWith(t, k, VTable(r.val))) ELSE r

RECURSIVE ParseLines(_, _, _, _)
ParseLines(lines, i, table, prefix) ==
    IF i > Len(lines) THEN Ok(VTable(table))
    ELSE LET l == lines[i] IN
         IF l.kind = "garbage" THEN Err("expected an equals sign")
         ELSE LET at == IF l.kind = "header" THEN l.path ELSE prefix \o l.path
                  r == TableInsert(table, at, l.val)
              IN IF ~r.ok THEN r
                 ELSE ParseLines(lines, i + 1, r.val,
                                 IF l.kind = "header" THEN l.path ELSE prefix)

TomlParse(text) == ParseLines(text, 1, EmptyTable, <<>>)

\* ------------------------------------------------------------------------
\* src/config/toml.rs
\* ------------------------------------------------------------------------

IO(msg) == [kind |-> "IO", msg |-> msg]
Parse(e) == [kind |-> "Parse", msg |-> e]
Decode == [kind |-> "Decode", msg |-> ""]

str_by_key(table, key) ==
    LET v == map_get(table, key) IN
    IF v = None THEN None ELSE as_str(v[1])

\* a decoder whose platform slots depend on one another: all three or none
decode_asset_name_all_or_none(table) ==
    LET v == map_get(table, "asset_name")
        t == IF v = None THEN None ELSE as_table(v[1])
    IN IF t = None \/ str_by_key(t[1], "linux") = None
          \/ str_by_key(t[1], "macos") = None \/ str_by_key(t[1], "windows") = None
       THEN [linux |-> None, macos |-> None, windows |-> None]
       ELSE [linux |-> str_by_key(t[1], "linux"),
             macos |-> str_by_key(t[1], "macos"),
             windows |-> str_by_key(t[1], "windows")]

decode_asset_name(table) ==
    LET v == map_get(table, "asset_name")
        t == IF v = None THEN None ELSE as_table(v[1])
    IN IF t = None
       THEN [linux |-> None, macos |-> None, windows |-> None]
       ELSE [linux |-> str_by_key(t[1], "linux"),
             macos |-> str_by_key(t[1], "macos"),
             windows |-> str_by_key(t[1], "windows")]

decode_config_asset(table) ==
    [owner |-> str_by_key(table, "owner"),
     repo |-> str_by_key(table, "repo"),
     exe_name |-> str_by_key(table, "exe_name"),
     asset_name |-> decode_asset_name(table),
     tag |-> str_by_key(table, "tag")]

\* a decoder that falls back to a default store directory
decode_config_defaulting(toml) ==
    LET sd == get(toml, "store_directory")
        s == IF sd = None THEN Some("~/.local/bin") ELSE as_str(sd[1])
        t == as_table(toml)
    IN IF s = None \/ t = None THEN None
       ELSE Some([store_directory |-> s[1],
                  tools |-> [key \in {k \in DOMAIN t[1] : t[1][k].kind = "Table"}
                                |-> decode_config_asset(t[1][key].tab)]])

\* a decoder that rejects a top-level value that is neither a string nor a table
decode_config_strict(toml) ==
    LET sd == get(toml, "store_directory")
        s == IF sd = None THEN None ELSE as_str(sd[1])
        t == as_table(toml)
    IN IF s = None \/ t = None THEN None
       ELSE IF \E k \in DOMAIN t[1] : t[1][k].kind \notin {"String", "Table"} THEN None
       ELSE Some([store_directory |-> s[1],
                  tools |-> [key \in {k \in DOMAIN t[1] : t[1][k].kind = "Table"}
                                |-> decode_config_asset(t[1][key].tab)]])

\* a decoder that makes a tool of every top-level key but store_directory
decode_config_every_key(toml) ==
    LET sd == get(toml, "store_directory")
        s == IF sd = None THEN None ELSE as_str(sd[1])
        t == as_table(toml)
    IN IF s = None \/ t = None THEN None
       ELSE Some([store_directory |-> s[1],
                  tools |-> [key \in DOMAIN t[1] \ {"store_directory"}
                                |-> decode_config_asset(t[1][key].tab)]])

decode_config(toml) ==
    LET sd == get(toml, "store_directory")
        s == IF sd = None THEN None ELSE as_str(sd[1])
        t == as_table(toml)
    IN IF s = None \/ t = None THEN None
       ELSE Some([store_directory |-> s[1],
                  tools |-> [key \in {k \in DOMAIN t[1] : t[1][k].kind = "Table"}
                                |-> decode_config_asset(t[1][key].tab)]])

parse_string(text) ==
    LET toml == TomlParse(text) IN
    IF ~toml.ok THEN Err(Parse(toml.val))
    ELSE LET c == decode_config(toml.val) IN
         IF c = None THEN Err(Decode) ELSE Ok(c[1])

parse_file(can_read, text) ==
    IF ~can_read THEN Err(IO("No such file or directory")) ELSE parse_string(text)

\* ------------------------------------------------------------------------
\* The configurations the decoder is run on
\* ------------------------------------------------------------------------

\* how many tool names a configuration may use
MaxTools == 2

AllToolNames == <<"ripgrep", "bat", "exa", "fd">>
ToolNames == SubSeq(AllToolNames, 1, MaxTools)

Opt(present, line) == IF present THEN <<line>> ELSE <<>>

RECURSIVE Flatten(_)
Flatten(seqs) == IF seqs = <<>> THEN <<>> ELSE Head(seqs) \o Flatten(Tail(seqs))

\* the body of the fully populated tool of tests::single_full_tool
FullBody ==
    << KV(<<"owner">>, VString("me")),
       KV(<<"repo">>, VString("some_repo")),
       KV(<<"exe_name">>, VString("rg")),
       KV(<<"asset_name", "linux">>, VString("R2D2")),
       KV(<<"asset_name", "macos">>, VString("C3-PO")),
       KV(<<"asset_name", "windows">>, VString("IG-88")),
       KV(<<"tag">>, VString("4.2.0")) >>

\* the body of tests::single_partial_tool
PartialBody ==
    << KV(<<"owner">>, VString("me")),
       KV(<<"asset_name", "linux">>, VString("R2D2")) >>

SDChoices == {"absent", "pancake", "~/.local/bin", "number", "array", "table"}
StrayChoices == {"absent", "string", "number", "array"}
ToolChoices == {"absent", "string", "number", "empty", "partial", "full"}

\* the top-level `key = value` lines come first, the `[table]` sections after
ToolTop(name, c) ==
    IF c = "string" THEN <<KV(<<name>>, VString("0.13.0"))>>
    ELSE IF c = "number" THEN <<KV(<<name>>, VInteger(7))>>
    ELSE <<>>

ToolSection(name, c) ==
    IF c = "empty" THEN <<Header(<<name>>)>>
    ELSE IF c = "partial" THEN <<Header(<<name>>)>> \o PartialBody
    ELSE IF c = "full" THEN <<Header(<<name>>)>> \o FullBody
    ELSE <<>>

SDTop(c) ==
    IF c \in {"pancake", "~/.local/bin"} THEN <<KV(<<"store_directory">>, VString(c))>>
    ELSE IF c = "number" THEN <<KV(<<"store_directory">>, VInteger(42))>>
    ELSE IF c = "array" THEN <<KV(<<"store_directory">>, VArray)>>
    ELSE <<>>

StrayTop(c) ==
    IF c = "string" THEN <<KV(<<"editor">>, VString("vim"))>>
    ELSE IF c = "number" THEN <<KV(<<"editor">>, VInteger(3))>>
    ELSE IF c = "array" THEN <<KV(<<"editor">>, VArray)>>
    ELSE <<>>

\* documents that vary the top level: store_directory, a dotted
\* store.directory, a stray key and up to MaxTools tool names
ShapeDoc(sd, dotted, stray, tc) ==
    SDTop(sd)
    \o Opt(dotted, KV(<<"store", "directory">>, VString("pancake")))
    \o StrayTop(stray)
    \o Flatten([i \in 1..MaxTools |-> ToolTop(ToolNames[i], tc[i])])
    \o Opt(sd = "table", Header(<<"store_directory">>))
    \o Flatten([i \in 1..MaxTools |-> ToolSection(ToolNames[i], tc[i])])

ShapeDocs ==
    { ShapeDoc(sd, dotted, stray, tc) :
        sd \in SDChoices, dotted \in BOOLEAN, stray \in StrayChoices,
        tc \in [1..MaxTools -> ToolChoices] }

\* documents that vary one tool section: each field absent, a string or a
\* number; asset_name absent, a number, or a sub-table given by dotted keys
FieldChoices == {"absent", "string", "number"}

FieldLine(path, c, s) ==
    IF c = "string" THEN <<KV(path, VString(s))>>
    ELSE IF c = "number" THEN <<KV(path, VInteger(42))>>
    ELSE <<>>

FieldDoc(f, an) ==
    << KV(<<"store_directory">>, VString("pancake")), Header(<<"ripgrep">>) >>
    \o FieldLine(<<"owner">>, f[1], "me")
    \o FieldLine(<<"repo">>, f[2], "some_repo")
    \o FieldLine(<<"exe_name">>, f[3], "rg")
    \o Opt(an, KV(<<"asset_name">>, VInteger(1)))
    \o FieldLine(<<"asset_name", "linux">>, f[4], "R2D2")
    \o FieldLine(<<"asset_name", "macos">>, f[5], "C3-PO")
    \o FieldLine(<<"asset_name", "windows">>, f[6], "IG-88")
    \o FieldLine(<<"tag">>, f[7], "4.2.0")

FieldDocs == { FieldDoc(f, an) : f \in [1..7 -> FieldChoices], an \in BOOLEAN }

Docs == ShapeDocs \cup FieldDocs \cup {<<Garbage>>}

\* ------------------------------------------------------------------------
\* Strings and paths of the archive extractor, as sequences of characters
\* ------------------------------------------------------------------------

TarGzSuffix == <<".", "t", "a", "r", ".", "g", "z">>
ZipSuffix == <<".", "z", "i", "p">>
Sep == "/"

\* str::strip_suffix
strip_suffix(s, suffix) ==
    IF Len(s) >= Len(suffix) /\ SubSeq(s, Len(s) - Len(suffix) + 1, Len(s)) = suffix
    THEN Some(SubSeq(s, 1, Len(s) - Len(suffix)))
    ELSE None

\* PathBuf::push on Unix
PathPush(path, p) ==
    IF p # <<>> /\ p[1] = Sep THEN p
    ELSE IF path # <<>> /\ path[Len(path)] # Sep THEN path \o <<Sep>> \o p
    ELSE path \o p

\* Path::components: the names between separators; empty ones are dropped
RECURSIVE Split(_, _, _)
Split(p, i, cur) ==
    IF i > Len(p) THEN (IF cur = <<>> THEN <<>> ELSE <<cur>>)
    ELSE IF p[i] = Sep
         THEN (IF cur = <<>> THEN <<>> ELSE <<cur>>) \o Split(p, i + 1, <<>>)
         ELSE Split(p, i + 1, Append(cur, p[i]))

\* the file a path names: two paths with the same components are one file
File(p) == [abs |-> p # <<>> /\ p[1] = Sep, comps |-> Split(p, 1, <<>>)]

\* the disk with `bytes` as the content of the file at p
Written(d, p, bytes) ==
    [f \in DOMAIN d \cup {File(p)} |-> IF f = File(p) THEN bytes ELSE d[f]]

NoFiles == [f \in {} |-> <<>>]

\* ------------------------------------------------------------------------
\* src/sync/archive.rs
\* ------------------------------------------------------------------------

Zip(dir) == [kind |-> "Zip", dir |-> dir]
TarGz(dir) == [kind |-> "TarGz", dir |-> dir]

Archive(path, tmp, exe, type) ==
    [archive_path |-> path, tmp_dir |-> tmp, exe_name |-> exe, archive_type |-> type]

\* Archive::from that strips every recognised suffix, not one
RECURSIVE from_strip_all(_, _, _, _)
from_strip_all(path, tmp, exe, asset) ==
    LET tar_gz_dir == strip_suffix(asset, TarGzSuffix)
        zip_dir == strip_suffix(asset, ZipSuffix)
        inner(dir) == from_strip_all(path, tmp, exe, dir)
    IN IF tar_gz_dir # None
       THEN IF inner(tar_gz_dir[1]) # None
            THEN Some(Archive(path, tmp, exe, TarGz(inner(tar_gz_dir[1])[1].archive_type.dir)))
            ELSE Some(Archive(path, tmp, exe, TarGz(tar_gz_dir[1])))
       ELSE IF zip_dir # None
            THEN IF inner(zip_dir[1]) # None
                 THEN Some(Archive(path, tmp, exe, Zip(inner(zip_dir[1])[1].archive_type.dir)))
                 ELSE Some(Archive(path, tmp, exe, Zip(zip_dir[1])))
            ELSE None

\* Archive::from
from(path, tmp, exe, asset) ==
    LET tar_gz_dir == strip_suffix(asset, TarGzSuffix) IN
    IF tar_gz_dir # None
    THEN Some(Archive(path, tmp, exe, TarGz(tar_gz_dir[1])))
    ELSE LET zip_dir == strip_suffix(asset, ZipSuffix) IN
         IF zip_dir # None
         THEN Some(Archive(path, tmp, exe, Zip(zip_dir[1])))
         ELSE None

\* unpack_zip: format!("bin/{exe_name}")
exe_path(exe) == <<"b", "i", "n", "/">> \o exe

\* unpack_zip built on the tar layout: the base directory is pushed too
zip_tool_path_with_dir(tmp, exe, asset) == PathPush(PathPush(PathPush(<<>>, tmp), asset), exe)

\* unpack_zip: the path to the final executable
zip_tool_path(tmp, exe, asset) == PathPush(PathPush(<<>>, tmp), exe)

\* unpack_tar: the path to the final executable
tar_tool_path(tmp, exe, asset) == PathPush(PathPush(PathPush(<<>>, tmp), asset), exe)

\* ZipArchive::by_name: the index of the entry with this name, 0 if none
by_name(entries, name) ==
    IF \E i \in 1..Len(entries) : entries[i].name = name
    THEN CHOOSE i \in 1..Len(entries) : entries[i].name = name
    ELSE 0

PathOk(p) == [ok |-> TRUE, path |-> p, err |-> ""]
IoErr(e) == [ok |-> FALSE, path |-> <<>>, err |-> e]
NoResult == [ok |-> FALSE, path |-> <<>>, err |-> "pending"]

\* ------------------------------------------------------------------------
\* The archives the extractor is run on
\* ------------------------------------------------------------------------

\* how many suffixes follow the stem of an asset name
MaxSuffixes == 2
\* how many entries a container holds
MaxEntries == 2

Stems == {<<>>, <<"f", "o", "o">>}
SuffixParts == {TarGzSuffix, ZipSuffix, <<".", "r", "a", "r">>, <<".", "t", "a", "r">>, <<".", "g", "z">>}

RECURSIVE Suffixed(_)
Suffixed(n) ==
    IF n = 0 THEN Stems
    ELSE Suffixed(n - 1) \cup {s \o p : s \in Suffixed(n - 1), p \in SuffixParts}

AssetNames == Suffixed(MaxSuffixes)
ExeNames == {<<"r", "g">>, <<"f", "o", "o">>}
TmpDirs == {<<"/", "t", "m", "p", "/", "x">>, <<"t", "/">>}
ArchivePaths == {<<"/", "d", "l", "/", "a", ".", "b", "i", "n">>}

Pool ==
    << [name |-> <<"b", "i", "n", "/", "r", "g">>, bytes |-> <<1, 2>>],
       [name |-> <<"b", "i", "n", "/", "f", "o", "o">>, bytes |-> <<3>>],
       [name |-> <<"r", "g">>, bytes |-> <<4>>],
       [name |-> <<"f", "o", "o", "/", "r", "g">>, bytes |-> <<5, 6>>],
       [name |-> <<"f", "o", "o", "/", "R", "E", "A", "D", "M", "E">>, bytes |-> <<7>>] >>

\* the entries of Pool picked by S, in Pool's order
RECURSIVE Pick(_, _)
Pick(S, i) ==
    IF i > Len(Pool) THEN <<>>
    ELSE (IF i \in S THEN <<Pool[i]>> ELSE <<>>) \o Pick(S, i + 1)

EntryLists == {Pick(S, 1) : S \in {T \in SUBSET (1..Len(Pool)) : Cardinality(T) <= MaxEntries}}

Containers ==
    {[format |-> "missing", entries |-> <<>>], [format |-> "other", entries |-> <<>>]}
    \cup {[format |-> f, entries |-> es] : f \in {"zip", "targz"}, es \in EntryLists}

StaleBytes == <<9, 9, 9>>

\* ------------------------------------------------------------------------
\* src/sync/progress.rs
\* ------------------------------------------------------------------------

MIN_TAG_SIZE == 8

\* std::cmp::max
cmp_max(a, b) == IF a >= b THEN a ELSE b

\* Iterator::max over the lengths: None for an empty iterator
RECURSIVE iter_max(_)
iter_max(sizes) ==
    IF sizes = <<>> THEN None
    ELSE LET rest == iter_max(Tail(sizes)) IN
         IF rest = None THEN Some(Head(sizes)) ELSE Some(cmp_max(Head(sizes), rest[1]))

\* tools.iter().map(|tool| tool.len()).max()
max_tool_size(tool_list) == iter_max([i \in 1..Len(tool_list) |-> Len(tool_list[i])])

\* a tag width whose floor only covers the empty tag list
max_tag_size_unfloored(tag_list) ==
    LET m == iter_max([i \in 1..Len(tag_list) |-> Len(tag_list[i])])
    IN IF m = None THEN MIN_TAG_SIZE ELSE m[1]

\* tags.iter().map(|tag| max(tag.len(), MIN_TAG_SIZE)).max().unwrap_or(MIN_TAG_SIZE)
max_tag_size(tag_list) ==
    LET m == iter_max([i \in 1..Len(tag_list) |-> cmp_max(Len(tag_list[i]), MIN_TAG_SIZE)])
    IN IF m = None THEN MIN_TAG_SIZE ELSE m[1]

SyncProgress(tool_size, tag_size) == [max_tool_size |-> tool_size, max_tag_size |-> tag_size]

NoProgress == SyncProgress(0, 0)

\* ------------------------------------------------------------------------
\* src/sync/db.rs
\* ------------------------------------------------------------------------

AssetName(l, m, w) == [linux |-> l, macos |-> m, windows |-> w]

ToolInfo(owner, repo, exe, asset) ==
    [owner |-> owner, repo |-> repo, exe_name |-> exe, asset_name |-> asset, tag |-> "Latest"]

Tokei ==
    ToolInfo("XAMPPRocky", "tokei", "tokei",
             AssetName(Some("x86_64-unknown-linux-musl"), Some("apple-darwin"),
                       Some("x86_64-pc-windows-msvc")))

\* lookup_tool with the commented-out tokei arm compiled in
lookup_tool_with_tokei(name) ==
    CASE name = "bat" ->
            Some(ToolInfo("sharkdp", "bat", "bat",
                 AssetName(Some("x86_64-unknown-linux-musl"), Some("x86_64-apple-darwin"),
                           Some("x86_64-pc-windows-msvc"))))
      [] name = "difftastic" ->
            Some(ToolInfo("Wilfred", "difftastic", "difft",
                 AssetName(Some("x86_64-unknown-linux-gnu"), Some("x86_64-apple-darwin"),
                           Some("x86_64-pc-windows-msvc"))))
      [] name = "exa" ->
            Some(ToolInfo("ogham", "exa", "exa",
                 AssetName(Some("linux-x86_64-musl"), Some("macos-x86_64"), None)))
      [] name = "fd" ->
            Some(ToolInfo("sharkdp", "fd", "fd",
                 AssetName(Some("x86_64-unknown-linux-musl"), Some("x86_64-apple-darwin"),
                           Some("x86_64-pc-windows-msvc"))))
      [] name = "ripgrep" ->
            Some(ToolInfo("BurntSushi", "ripgrep", "rg",
                 AssetName(Some("unknown-linux-musl"), Some("apple-darwin"),
                           Some("x86_64-pc-windows-msvc"))))
      [] name = "tool-sync" ->
            Some(ToolInfo("chshersh", "tool-sync", "tool",
                 AssetName(Some("x86_64-unknown-linux-gnu"), Some("x86_64-apple-darwin"),
                           Some("x86_64-pc-windows-msvc"))))
      [] name = "tokei" -> Some(Tokei)
      [] OTHER -> None

lookup_tool(name) ==
    CASE name = "bat" ->
            Some(ToolInfo("sharkdp", "bat", "bat",
                 AssetName(Some("x86_64-unknown-linux-musl"), Some("x86_64-apple-darwin"),
                           Some("x86_64-pc-windows-msvc"))))
      [] name = "difftastic" ->
            Some(ToolInfo("Wilfred", "difftastic", "difft",
                 AssetName(Some("x86_64-unknown-linux-gnu"), Some("x86_64-apple-darwin"),
                           Some("x86_64-pc-windows-msvc"))))
      [] name = "exa" ->
            Some(ToolInfo("ogham", "exa", "exa",
                 AssetName(Some("linux-x86_64-musl"), Some("macos-x86_64"), None)))
      [] name = "fd" ->
            Some(ToolInfo("sharkdp", "fd", "fd",
                 AssetName(Some("x86_64-unknown-linux-musl"), Some("x86_64-apple-darwin"),
                           Some("x86_64-pc-windows-msvc"))))
      [] name = "ripgrep" ->
            Some(ToolInfo("BurntSushi", "ripgrep", "rg",
                 AssetName(Some("unknown-linux-musl"), Some("apple-darwin"),
                           Some("x86_64-pc-windows-msvc"))))
      [] name = "tool-sync" ->
            Some(ToolInfo("chshersh", "tool-sync", "tool",
                 AssetName(Some("x86_64-unknown-linux-gnu"), Some("x86_64-apple-darwin"),
                           Some("x86_64-pc-windows-msvc"))))
      [] OTHER -> None

\* ------------------------------------------------------------------------
\* The lists SyncProgress::new and the names lookup_tool are run on
\* ------------------------------------------------------------------------

\* how long the tool and tag lists are
MaxList == 3
\* how many parts a looked-up name is made of
MaxNameParts == 2
\* how many times a name is looked up
MaxCalls == 2

ToolPool == {"ripgrep", "bat", "exa", "difftastic"}
TagPool == {"latest", "v0.10.10", "v0.10.100", "v10.10.100"}

RECURSIVE ListsOf(_, _)
ListsOf(S, n) ==
    IF n = 0 THEN {<<>>}
    ELSE ListsOf(S, n - 1) \cup {Append(l, x) : l \in ListsOf(S, n - 1), x \in S}

NameParts ==
    {"", "bat", "difftastic", "exa", "fd", "ripgrep", "tool-sync", "tokei",
     "tool", "-sync", "rip", "grep", "rg"}

RECURSIVE NamesOf(_)
NamesOf(n) ==
    IF n = 0 THEN {""}
    ELSE {a \o b : a \in NamesOf(n - 1), b \in NameParts}

LookupNames == NamesOf(MaxNameParts)

\* ------------------------------------------------------------------------
\* Components at rest
\* ------------------------------------------------------------------------

Pending == [ok |-> FALSE, val |-> [kind |-> "Pending", msg |-> ""]]

IdleConfig ==
    /\ readable = FALSE
    /\ contents = <<>>
    /\ cfg_pc = "idle"
    /\ cfg_res = Pending

IdleArchive ==
    /\ asset_name = <<>>
    /\ exe_name = <<>>
    /\ tmp_dir = <<>>
    /\ archive_path = <<>>
    /\ container = [format |-> "missing", entries |-> <<>>]
    /\ tmp_ok = FALSE
    /\ disk0 = NoFiles
    /\ disk = NoFiles
    /\ archive = None
    /\ ar_pc = "idle"
    /\ ar_pos = 0
    /\ ar_fault = FALSE
    /\ ar_res = NoResult

IdleProgress ==
    /\ tools = <<>>
    /\ tags = <<>>
    /\ pr_pc = "idle"
    /\ progress = NoProgress

IdleDb ==
    /\ tool_name = ""
    /\ db_calls = 0
    /\ db_prev = None
    /\ db_res = None

\* ------------------------------------------------------------------------
\* Archive: state machine
\* ------------------------------------------------------------------------

InitArchive ==
    /\ asset_name \in AssetNames
    /\ exe_name \in ExeNames
    /\ tmp_dir \in TmpDirs
    /\ archive_path \in ArchivePaths
    /\ container \in Containers
    /\ tmp_ok \in BOOLEAN
    /\ disk0 \in {NoFiles, Written(NoFiles, tmp_dir \o <<Sep>> \o exe_name, StaleBytes)}
    /\ disk = disk0
    /\ archive = None
    /\ ar_pc = "new"
    /\ ar_pos = 0
    /\ ar_fault = FALSE
    /\ ar_res = NoResult
    /\ IdleConfig
    /\ IdleProgress
    /\ IdleDb

self == archive[1]

Fail(step) ==
    /\ ar_pc' = "failed"
    /\ ar_res' = IoErr(step)

ar_inputs == <<asset_name, exe_name, tmp_dir, archive_path, container, tmp_ok, disk0>>

\* Archive::from(archive_path, tmp_dir, exe_name, asset_name)
From ==
    /\ ar_pc = "new"
    /\ archive' = from(archive_path, tmp_dir, exe_name, asset_name)
    /\ ar_pc' = IF archive' = None THEN "unsupported" ELSE "ready"
    /\ UNCHANGED <<ar_inputs, disk, ar_pos, ar_fault, ar_res, cfg_vars, pr_vars, db_vars>>

\* unpack -> unpack_zip: File::open(&zip_path)?
ZipOpen ==
    /\ ar_pc = "ready"
    /\ self.archive_type.kind = "Zip"
    /\ IF container.format = "missing"
       THEN Fail("open")
       ELSE ar_pc' = "zip_opened" /\ UNCHANGED ar_res
    /\ UNCHANGED <<ar_inputs, disk, archive, ar_pos, ar_fault, cfg_vars, pr_vars, db_vars>>

\* unpack_zip: zip::ZipArchive::new(zipfile)?
ZipNew ==
    /\ ar_pc = "zip_opened"
    /\ IF container.format # "zip"
       THEN Fail("invalid Zip archive")
       ELSE ar_pc' = "zip_indexed" /\ UNCHANGED ar_res
    /\ UNCHANGED <<ar_inputs, disk, archive, ar_pos, ar_fault, cfg_vars, pr_vars, db_vars>>

\* unpack_zip that creates the output file before it looks the entry up
ZipByName_after_create ==
    /\ ar_pc = "zip_indexed"
    /\ IF ~tmp_ok
       THEN Fail("create") /\ UNCHANGED disk
       ELSE /\ disk' = Written(disk, zip_tool_path(self.tmp_dir, self.exe_name,
                                                   self.archive_type.dir), <<>>)
            /\ IF by_name(container.entries, exe_path(self.exe_name)) = 0
               THEN Fail("specified file not found in archive")
               ELSE ar_pc' = "zip_copy" /\ UNCHANGED ar_res
    /\ UNCHANGED <<ar_inputs, archive, ar_pos, ar_fault, cfg_vars, pr_vars, db_vars>>

\* unpack_zip: archive.by_name(&exe_path)?
ZipByName ==
    /\ ar_pc = "zip_indexed"
    /\ IF by_name(container.entries, exe_path(self.exe_name)) = 0
       THEN Fail("specified file not found in archive")
       ELSE ar_pc' = "zip_found" /\ UNCHANGED ar_res
    /\ UNCHANGED <<ar_inputs, disk, archive, ar_pos, ar_fault, cfg_vars, pr_vars, db_vars>>

\* unpack_zip: fs::File::create(&tool_path)?
ZipCreate ==
    /\ ar_pc = "zip_found"
    /\ IF tmp_ok
       THEN /\ disk' = Written(disk, zip_tool_path(self.tmp_dir, self.exe_name,
                                                   self.archive_type.dir), <<>>)
            /\ ar_pc' = "zip_copy"
            /\ UNCHANGED ar_res
       ELSE Fail("create") /\ UNCHANGED disk
    /\ UNCHANGED <<ar_inputs, archive, ar_pos, ar_fault, cfg_vars, pr_vars, db_vars>>

\* the entry unpack_zip copies from
input_file == container.entries[by_name(container.entries, exe_path(self.exe_name))]

\* unpack_zip: io::copy(&mut input_file, &mut output_file), one chunk
ZipCopy ==
    /\ ar_pc = "zip_copy"
    /\ ar_pos < Len(input_file.bytes)
    /\ LET tool_path == zip_tool_path(self.tmp_dir, self.exe_name, self.archive_type.dir)
       IN disk' = Written(disk, tool_path,
                          Append(disk[File(tool_path)], input_file.bytes[ar_pos + 1]))
    /\ ar_pos' = ar_pos + 1
    /\ UNCHANGED <<ar_inputs, archive, ar_pc, ar_fault, ar_res, cfg_vars, pr_vars, db_vars>>

\* unpack_zip that removes its output file when the copy fails
ZipCopyFault_with_cleanup ==
    /\ ar_pc = "zip_copy"
    /\ ar_pos < Len(input_file.bytes)
    /\ ar_fault' = TRUE
    /\ Fail("copy")
    /\ LET tool_file == File(zip_tool_path(self.tmp_dir, self.exe_name,
                                           self.archive_type.dir))
       IN disk' = [f \in DOMAIN disk \ {tool_file} |-> disk[f]]
    /\ UNCHANGED <<ar_inputs, archive, ar_pos, cfg_vars, pr_vars, db_vars>>

\* unpack_zip: io::copy(...)? when a read or a write fails
ZipCopyFault ==
    /\ ar_pc = "zip_copy"
    /\ ar_pos < Len(input_file.bytes)
    /\ ar_fault' = TRUE
    /\ Fail("copy")
    /\ UNCHANGED <<ar_inputs, disk, archive, ar_pos, cfg_vars, pr_vars, db_vars>>

\* unpack_zip: Ok(tool_path)
ZipReturn ==
    /\ ar_pc = "zip_copy"
    /\ ar_pos = Len(input_file.bytes)
    /\ ar_res' = PathOk(zip_tool_path(self.tmp_dir, self.exe_name, self.archive_type.dir))
    /\ ar_pc' = "done"
    /\ UNCHANGED <<ar_inputs, disk, archive, ar_pos, ar_fault, cfg_vars, pr_vars, db_vars>>

\* unpack -> unpack_tar: File::open(tar_path)?
TarOpen ==
    /\ ar_pc = "ready"
    /\ self.archive_type.kind = "TarGz"
    /\ IF container.format = "missing"
       THEN Fail("open")
       ELSE ar_pc' = "tar_opened" /\ UNCHANGED ar_res
    /\ UNCHANGED <<ar_inputs, disk, archive, ar_pos, ar_fault, cfg_vars, pr_vars, db_vars>>

\* unpack_tar: archive.unpack(tmp_dir), one entry
TarUnpack ==
    /\ ar_pc = "tar_opened"
    /\ container.format = "targz"
    /\ ar_pos < Len(container.entries)
    /\ tmp_ok
    /\ LET entry == container.entries[ar_pos + 1]
       IN disk' = Written(disk, PathPush(self.tmp_dir, entry.name), entry.bytes)
    /\ ar_pos' = ar_pos + 1
    /\ UNCHANGED <<ar_inputs, archive, ar_pc, ar_fault, ar_res, cfg_vars, pr_vars, db_vars>>

\* unpack_tar: archive.unpack(tmp_dir)? on a stream that is no gzip, or when
\* the entry's file cannot be created
TarUnpackFail ==
    /\ ar_pc = "tar_opened"
    /\ \/ container.format # "targz"
       \/ ar_pos < Len(container.entries) /\ ~tmp_ok
    /\ Fail("unpack")
    /\ UNCHANGED <<ar_inputs, disk, archive, ar_pos, ar_fault, cfg_vars, pr_vars, db_vars>>

\* unpack_tar: archive.unpack(tmp_dir)? when a read or a write fails: before
\* the entry's file is created, or after some of its bytes were written
TarUnpackFault ==
    /\ ar_pc = "tar_opened"
    /\ container.format = "targz"
    /\ ar_pos < Len(container.entries)
    /\ ar_fault' = TRUE
    /\ Fail("unpack")
    /\ LET entry == container.entries[ar_pos + 1]
       IN \/ UNCHANGED disk
          \/ /\ tmp_ok
             /\ \E n \in 0..(Len(entry.bytes) - 1) :
                   disk' = Written(disk, PathPush(self.tmp_dir, entry.name),
                                   SubSeq(entry.bytes, 1, n))
    /\ UNCHANGED <<ar_inputs, archive, ar_pos, cfg_vars, pr_vars, db_vars>>

\* unpack_tar that returns the path only if a file is there
TarReturn_if_exists ==
    /\ ar_pc = "tar_opened"
    /\ container.format = "targz"
    /\ ar_pos = Len(container.entries)
    /\ LET tool_path == tar_tool_path(self.tmp_dir, self.exe_name, self.archive_type.dir)
       IN IF File(tool_path) \in DOMAIN disk
          THEN ar_res' = PathOk(tool_path) /\ ar_pc' = "done"
          ELSE Fail("No such file or directory")
    /\ UNCHANGED <<ar_inputs, disk, archive, ar_pos, ar_fault, cfg_vars, pr_vars, db_vars>>

\* unpack_tar: Ok(tool_path)
TarReturn ==
    /\ ar_pc = "tar_opened"
    /\ container.format = "targz"
    /\ ar_pos = Len(container.entries)
    /\ ar_res' = PathOk(tar_tool_path(self.tmp_dir, self.exe_name, self.archive_type.dir))
    /\ ar_pc' = "done"
    /\ UNCHANGED <<ar_inputs, disk, archive, ar_pos, ar_fault, cfg_vars, pr_vars, db_vars>>

NextArchive ==
    \/ From
    \/ ZipOpen \/ ZipNew \/ ZipByName \/ ZipCreate \/ ZipCopy \/ ZipCopyFault \/ ZipReturn
    \/ TarOpen \/ TarUnpack \/ TarUnpackFail \/ TarUnpackFault \/ TarReturn

SpecArchive == InitArchive /\ [][NextArchive]_vars

\* ------------------------------------------------------------------------
\* Configuration: state machine
\* ------------------------------------------------------------------------

InitConfig ==
    /\ \/ readable = TRUE /\ contents \in Docs
       \/ readable = FALSE /\ contents = <<>>
    /\ cfg_pc = "start"
    /\ cfg_res = Pending
    /\ IdleArchive
    /\ IdleProgress
    /\ IdleDb

\* parse_file(config_path)
ParseFile ==
    /\ cfg_pc = "start"
    /\ cfg_res' = parse_file(readable, contents)
    /\ cfg_pc' = "parse_file"
    /\ UNCHANGED <<readable, contents, ar_vars, pr_vars, db_vars>>

\* parse_string(contents), as the tests call it on a string in memory
ParseString ==
    /\ cfg_pc = "start"
    /\ readable
    /\ cfg_res' = parse_string(contents)
    /\ cfg_pc' = "parse_string"
    /\ UNCHANGED <<readable, contents, ar_vars, pr_vars, db_vars>>

NextConfig == ParseFile \/ ParseString

SpecConfig == InitConfig /\ [][NextConfig]_vars

\* ------------------------------------------------------------------------
\* Progress and registry: state machines
\* ------------------------------------------------------------------------

InitProgress ==
    /\ tools \in ListsOf(ToolPool, MaxList)
    /\ tags \in ListsOf(TagPool, MaxList)
    /\ pr_pc = "new"
    /\ progress = NoProgress
    /\ IdleConfig
    /\ IdleArchive
    /\ IdleDb

\* SyncProgress::new(tools, tags); the unwrap panics on an empty tool list
New ==
    /\ pr_pc = "new"
    /\ IF max_tool_size(tools) = None
       THEN pr_pc' = "panicked" /\ UNCHANGED progress
       ELSE /\ progress' = SyncProgress(max_tool_size(tools)[1], max_tag_size(tags))
            /\ pr_pc' = "done"
    /\ UNCHANGED <<tools, tags, cfg_vars, ar_vars, db_vars>>

NextProgress == New

SpecProgress == InitProgress /\ [][NextProgress]_vars

InitDb ==
    /\ tool_name \in LookupNames
    /\ db_calls = 0
    /\ db_prev = None
    /\ db_res = None
    /\ IdleConfig
    /\ IdleArchive
    /\ IdleProgress

\* lookup_tool(tool_name)
Lookup ==
    /\ db_calls < MaxCalls
    /\ db_res' = lookup_tool(tool_name)
    /\ db_prev' = db_res
    /\ db_calls' = db_calls + 1
    /\ UNCHANGED <<tool_name, cfg_vars, ar_vars, pr_vars>>

NextDb == Lookup

SpecDb == InitDb /\ [][NextDb]_vars

\* ------------------------------------------------------------------------
\* Configuration: properties
\* ------------------------------------------------------------------------

\* parse_string has run on contents
CalledParse == cfg_pc = "parse_string" \/ (cfg_pc = "parse_file" /\ readable)

\* the document as a TOML reader sees it
Parsed == TomlParse(contents)
Top == Parsed.val.tab

\* a top-level line `store_directory = "<string>"`: one before any section
HasStoreDirectoryString ==
    \E i \in 1..Len(contents) :
        /\ contents[i].kind = "kv"
        /\ contents[i].path = <<"store_directory">>
        /\ contents[i].val.kind = "String"
        /\ \A j \in 1..(i - 1) : contents[j].kind # "header"

StoreDirectoryLine ==
    CHOOSE i \in 1..Len(contents) :
        contents[i].kind = "kv" /\ contents[i].path = <<"store_directory">>

EmptyAsset ==
    [owner |-> None, repo |-> None, exe_name |-> None,
     asset_name |-> [linux |-> None, macos |-> None, windows |-> None],
     tag |-> None]

\* C1: a syntactically valid document whose top-level store_directory is
\* missing (the empty document and a lone dotted store.directory included) or
\* is no string makes parse_string fail with exactly TomlError::Decode; no
\* Config is returned.
Thm_C1 ==
    /\ (CalledParse /\ Parsed.ok /\ ~HasStoreDirectoryString) => cfg_res = Err(Decode)
    /\ (CalledParse /\ contents = <<>>) => cfg_res = Err(Decode)
    /\ (CalledParse /\ Parsed.ok /\ "store_directory" \notin DOMAIN Top)
          => ~cfg_res.ok /\ cfg_res.val.kind = "Decode"

\* the dotted store.directory of tests::store_directory_is_dotted was decoded
Witness_C1 ==
    /\ cfg_pc = "parse_string"
    /\ contents = <<KV(<<"store", "directory">>, VString("pancake"))>>
    /\ cfg_res = Err(Decode)

\* C2: every valid document whose top-level store_directory is a string
\* decodes to a Config with that very string, whatever the types of the other
\* top-level values, tool fields and asset_name values.
Thm_C2 ==
    (CalledParse /\ Parsed.ok /\ HasStoreDirectoryString) =>
        /\ cfg_res.ok
        /\ cfg_res.val.store_directory = contents[StoreDirectoryLine].val.str

\* a tool whose every field is a number, next to a stray array, was decoded
Witness_C2 ==
    /\ CalledParse
    /\ cfg_res.ok
    /\ \E k \in DOMAIN Top : Top[k].kind = "Array"
    /\ \E k \in DOMAIN Top : Top[k].kind = "Integer"

\* C3: after a successful decode the tools are exactly the top-level keys
\* whose value is a table; store_directory is never a tool, and an empty tool
\* table gives an entry with every field absent.
Thm_C3 ==
    (CalledParse /\ cfg_res.ok) =>
        /\ DOMAIN cfg_res.val.tools = {k \in DOMAIN Top : Top[k].kind = "Table"}
        /\ "store_directory" \notin DOMAIN cfg_res.val.tools
        /\ \A k \in DOMAIN cfg_res.val.tools :
              Top[k].tab = EmptyTable => cfg_res.val.tools[k] = EmptyAsset

\* MaxTools empty tool tables next to a stray number gave MaxTools entries
Witness_C3 ==
    /\ CalledParse
    /\ contents = ShapeDoc("pancake", FALSE, "number", [i \in 1..MaxTools |-> "empty"])
    /\ cfg_res.ok
    /\ Cardinality(DOMAIN cfg_res.val.tools) = MaxTools
    /\ \A k \in DOMAIN cfg_res.val.tools : cfg_res.val.tools[k] = EmptyAsset

\* the field is Some(s) exactly when the key holds the string s
FieldIs(opt, table, key) ==
    IF key \in DOMAIN table /\ table[key].kind = "String"
    THEN opt = Some(table[key].str)
    ELSE opt = None

\* the Config of tests::single_full_tool
FullConfig ==
    [store_directory |-> "pancake",
     tools |-> [k \in {"ripgrep"} |->
        [owner |-> Some("me"), repo |-> Some("some_repo"), exe_name |-> Some("rg"),
         asset_name |-> [linux |-> Some("R2D2"), macos |-> Some("C3-PO"),
                         windows |-> Some("IG-88")],
         tag |-> Some("4.2.0")]]]

FullDoc == FieldDoc([i \in 1..7 |-> "string"], FALSE)

\* C4: each of owner, repo, exe_name, tag and the three asset_name slots of a
\* decoded tool is Some(s) exactly when its key holds the string s, each
\* independently of the others; without an asset_name sub-table the three
\* slots are None; a fully populated tool keeps every field unchanged.
Thm_C4 ==
    /\ (CalledParse /\ cfg_res.ok) =>
          \A k \in DOMAIN cfg_res.val.tools :
              LET table == Top[k].tab
                  tool == cfg_res.val.tools[k]
                  sub == IF "asset_name" \in DOMAIN table
                            /\ table["asset_name"].kind = "Table"
                         THEN table["asset_name"].tab
                         ELSE EmptyTable
              IN /\ FieldIs(tool.owner, table, "owner")
                 /\ FieldIs(tool.repo, table, "repo")
                 /\ FieldIs(tool.exe_name, table, "exe_name")
                 /\ FieldIs(tool.tag, table, "tag")
                 /\ FieldIs(tool.asset_name.linux, sub, "linux")
                 /\ FieldIs(tool.asset_name.macos, sub, "macos")
                 /\ FieldIs(tool.asset_name.windows, sub, "windows")
    /\ (CalledParse /\ contents = FullDoc) => cfg_res = Ok(FullConfig)

\* a tool with some asset_name slots set and others not was decoded
Witness_C4 ==
    /\ CalledParse
    /\ cfg_res.ok
    /\ "ripgrep" \in DOMAIN cfg_res.val.tools
    /\ cfg_res.val.tools["ripgrep"].asset_name.linux = None
    /\ cfg_res.val.tools["ripgrep"].asset_name.macos = Some("C3-PO")
    /\ cfg_res.val.tools["ripgrep"].owner = None
    /\ cfg_res.val.tools["ripgrep"].repo = Some("some_repo")

\* ------------------------------------------------------------------------
\* Archive: properties
\* ------------------------------------------------------------------------

EndsWith(s, suffix) == \E n \in 0..Len(s) : SubSeq(s, 1, n) \o suffix = s

Classified == ar_pc \notin {"idle", "new"}

IsZip == archive # None /\ archive[1].archive_type.kind = "Zip"
IsTarGz == archive # None /\ archive[1].archive_type.kind = "TarGz"

\* C5: Archive::from yields the tar-gz kind for a name ending in .tar.gz, the
\* zip kind for a name not ending in .tar.gz but ending in .zip, and None for
\* any other name; the base is the name less that one suffix, and
\* archive_path, tmp_dir and exe_name are passed through unchanged.
Thm_C5 ==
    Classified =>
        /\ EndsWith(asset_name, TarGzSuffix) =>
              IsTarGz /\ archive[1].archive_type.dir \o TarGzSuffix = asset_name
        /\ (~EndsWith(asset_name, TarGzSuffix) /\ EndsWith(asset_name, ZipSuffix)) =>
              IsZip /\ archive[1].archive_type.dir \o ZipSuffix = asset_name
        /\ (~EndsWith(asset_name, TarGzSuffix) /\ ~EndsWith(asset_name, ZipSuffix)) =>
              archive = None
        /\ archive # None =>
              /\ archive[1].archive_path = archive_path
              /\ archive[1].tmp_dir = tmp_dir
              /\ archive[1].exe_name = exe_name
        /\ asset_name = <<"f", "o", "o", ".", "t", "a", "r", ".", "g", "z">> => IsTarGz /\ archive[1].archive_type.dir = <<"f", "o", "o">>
        /\ asset_name = <<"f", "o", "o", ".", "z", "i", "p">> => IsZip /\ archive[1].archive_type.dir = <<"f", "o", "o">>
        /\ asset_name = <<"f", "o", "o", ".", "r", "a", "r">> => archive = None

\* a name with two recognised suffixes lost only the last one
Witness_C5 ==
    /\ Classified
    /\ asset_name = <<"f", "o", "o", ".", "t", "a", "r", ".", "g", "z", ".", "z", "i", "p">>
    /\ archive # None
    /\ archive[1].archive_type = Zip(<<"f", "o", "o", ".", "t", "a", "r", ".", "g", "z">>)

NoBinEntry ==
    \A i \in 1..Len(container.entries) :
        container.entries[i].name # <<"b", "i", "n", "/">> \o exe_name

\* C6: unpacking a zip archive without an entry bin/{exe_name} ends in an
\* I/O error and creates no output file; when the open, the index or the
\* entry lookup fails, nothing has been written below tmp_dir.
Thm_C6 ==
    IsZip =>
        /\ (ar_pc = "failed" /\ ar_res.err \in
               {"open", "invalid Zip archive", "specified file not found in archive"})
              => disk = disk0 /\ ~ar_res.ok
        /\ (container.format = "zip" /\ NoBinEntry) =>
              /\ disk = disk0
              /\ ar_pc \in {"ready", "zip_opened", "zip_indexed", "failed"}
              /\ ar_pc = "failed" =>
                    ar_res = IoErr("specified file not found in archive")

\* the lookup failed on a zip that holds the executable outside bin/
Witness_C6 ==
    /\ IsZip
    /\ ar_pc = "failed"
    /\ ar_res = IoErr("specified file not found in archive")
    /\ tmp_ok
    /\ \E i \in 1..Len(container.entries) : container.entries[i].name = exe_name
    /\ disk = disk0

\* C7: a successful zip extraction leaves the bytes of the entry
\* bin/{exe_name}, and of no other entry, in the file {tmp_dir}/{exe_name}
\* and returns that path, whatever the base name of the asset.
Thm_C7 ==
    (IsZip /\ ar_pc = "done") =>
        /\ ar_res.ok
        /\ File(ar_res.path) = File(tmp_dir \o <<Sep>> \o exe_name)
        /\ \E i \in 1..Len(container.entries) :
              /\ container.entries[i].name = <<"b", "i", "n", "/">> \o exe_name
              /\ disk = Written(disk0, tmp_dir \o <<Sep>> \o exe_name,
                                container.entries[i].bytes)

\* a zip with a second entry was extracted over a stale file, base name foo
Witness_C7 ==
    /\ IsZip
    /\ ar_pc = "done"
    /\ Len(container.entries) = 2
    /\ archive[1].archive_type.dir = <<"f", "o", "o">>
    /\ disk0 # NoFiles
    /\ disk # disk0

\* C8: a tar.gz archive that opens and unpacks without I/O error has every
\* entry unpacked below tmp_dir and returns Ok({tmp_dir}/{base}/{exe_name}),
\* base being the asset name less .tar.gz, whether or not a file is there.
Thm_C8 ==
    IsTarGz =>
        /\ ar_pc = "done" =>
              /\ ar_res.ok
              /\ \E n \in 0..Len(asset_name) :
                    /\ SubSeq(asset_name, 1, n) \o TarGzSuffix = asset_name
                    /\ File(ar_res.path) =
                          File(tmp_dir \o <<Sep>> \o SubSeq(asset_name, 1, n)
                                       \o <<Sep>> \o exe_name)
              /\ \A i \in 1..Len(container.entries) :
                    LET f == File(tmp_dir \o <<Sep>> \o container.entries[i].name)
                    IN f \in DOMAIN disk /\ disk[f] = container.entries[i].bytes
        /\ ar_pc = "failed" =>
              container.format # "targz" \/ ~tmp_ok \/ ar_fault

\* a tar.gz was unpacked and the returned path names no file
Witness_C8 ==
    /\ IsTarGz
    /\ ar_pc = "done"
    /\ ar_res.ok
    /\ Len(container.entries) > 0
    /\ File(ar_res.path) \notin DOMAIN disk

\* ------------------------------------------------------------------------
\* Progress and registry: properties
\* ------------------------------------------------------------------------

\* m is the largest of the lengths of the strings of list, or of floor
LongestIs(m, list, floor) ==
    /\ m >= floor
    /\ \A i \in 1..Len(list) : Len(list[i]) <= m
    /\ m = floor \/ \E i \in 1..Len(list) : Len(list[i]) = m

\* C9: for a non-empty tool list and any tag list SyncProgress::new sets
\* max_tool_size to the length of the longest tool name and max_tag_size to
\* the larger of 8 and the length of the longest tag: 7 and 10 for the tools
\* and tags of test_max_tag_size_specific, 8 for tags that are all "latest".
Thm_C9 ==
    /\ (pr_pc # "new" /\ tools # <<>>) =>
          /\ pr_pc = "done"
          /\ \E i \in 1..Len(tools) : Len(tools[i]) = progress.max_tool_size
          /\ \A i \in 1..Len(tools) : Len(tools[i]) <= progress.max_tool_size
          /\ LongestIs(progress.max_tag_size, tags, 8)
    /\ (pr_pc # "new" /\ tools = <<"ripgrep", "bat", "exa">>
          /\ tags = <<"v10.10.100", "latest", "latest">>) =>
          progress.max_tag_size = 10 /\ progress.max_tool_size = 7
    /\ (pr_pc # "new" /\ tools # <<>> /\ \A i \in 1..Len(tags) : tags[i] = "latest") =>
          progress.max_tag_size = 8

\* the lists of test_max_tag_size_specific gave widths 7 and 10
Witness_C9 ==
    /\ pr_pc = "done"
    /\ tools = <<"ripgrep", "bat", "exa">>
    /\ tags = <<"v10.10.100", "latest", "latest">>
    /\ progress = SyncProgress(7, 10)

KnownTools == {"bat", "difftastic", "exa", "fd", "ripgrep", "tool-sync"}

\* C10: lookup_tool returns None for every name outside bat, difftastic,
\* exa, fd, ripgrep and tool-sync (tokei included), and for each of these, on
\* every call, the same entry: owner, repo and exe_name non-empty, tag Latest,
\* and every platform fragment present but the windows one of exa.
Thm_C10 ==
    db_calls > 0 =>
        /\ tool_name \notin KnownTools => db_res = None
        /\ tool_name = "tokei" => db_res = None
        /\ tool_name \in KnownTools =>
              /\ db_res # None
              /\ db_res[1].owner # "" /\ db_res[1].repo # "" /\ db_res[1].exe_name # ""
              /\ db_res[1].tag = "Latest"
              /\ db_res[1].asset_name.linux # None
              /\ db_res[1].asset_name.macos # None
              /\ db_res[1].asset_name.windows = None <=> tool_name = "exa"
        /\ db_calls > 1 => db_res = db_prev

\* exa was looked up twice and has no windows fragment
Witness_C10 ==
    /\ tool_name = "exa"
    /\ db_calls = 2
    /\ db_res # None
    /\ db_res[1].asset_name.windows = None
    /\ db_res = db_prev

\* ------------------------------------------------------------------------
\* Archive: what a failed unpack leaves behind
\* ------------------------------------------------------------------------

Returned == ar_pc \in {"done", "failed"}

\* b is the beginning of bytes, and not all of it
ProperPrefix(b, bytes) == Len(b) < Len(bytes) /\ b = SubSeq(bytes, 1, Len(b))

ZipOutput == File(tmp_dir \o <<Sep>> \o exe_name)

TarOutput(i) == File(tmp_dir \o <<Sep>> \o container.entries[i].name)

\* every file but those of F is as it was before unpack
UntouchedBut(F) ==
    /\ DOMAIN disk0 \subseteq DOMAIN disk
    /\ \A f \in DOMAIN disk \ F : f \in DOMAIN disk0 /\ disk[f] = disk0[f]

\* Ok is returned only once everything was extracted
C11_WholeOnOk ==
    /\ (Classified /\ archive # None) => (ar_res.ok <=> ar_pc = "done")
    /\ (IsZip /\ ar_pc = "done") =>
          \E i \in 1..Len(container.entries) :
              /\ container.entries[i].name = <<"b", "i", "n", "/">> \o exe_name
              /\ disk[ZipOutput] = container.entries[i].bytes
    /\ (IsTarGz /\ ar_pc = "done") =>
          \A i \in 1..Len(container.entries) :
              TarOutput(i) \in DOMAIN disk /\ disk[TarOutput(i)] = container.entries[i].bytes

\* what was written before the failing step is still there after Err
C11_LeftInPlace ==
    /\ (IsZip /\ ar_pc = "failed" /\ ar_res.err = "copy") =>
          /\ ZipOutput \in DOMAIN disk
          /\ \E i \in 1..Len(container.entries) :
                /\ container.entries[i].name = <<"b", "i", "n", "/">> \o exe_name
                /\ ProperPrefix(disk[ZipOutput], container.entries[i].bytes)
          /\ UntouchedBut({ZipOutput})
    /\ (IsZip /\ ar_pc = "failed" /\ ar_res.err # "copy") => disk = disk0
    /\ (IsTarGz /\ ar_pc = "failed") =>
          LET k == ar_pos IN
              /\ \A i \in 1..k :
                    TarOutput(i) \in DOMAIN disk
                    /\ disk[TarOutput(i)] = container.entries[i].bytes
              /\ \/ UntouchedBut({TarOutput(i) : i \in 1..k})
                 \/ /\ k < Len(container.entries)
                    /\ TarOutput(k + 1) \in DOMAIN disk
                    /\ ProperPrefix(disk[TarOutput(k + 1)], container.entries[k + 1].bytes)
                    /\ UntouchedBut({TarOutput(i) : i \in 1..(k + 1)})

\* unpack takes no step after it returned, and the step that returns Err
\* removes no file and changes none but the one it was writing
C11_NoRetryNoRollback ==
    /\ ~Returned
    /\ ar_pc' = "failed" =>
          /\ DOMAIN disk \subseteq DOMAIN disk'
          /\ IsZip => disk' = disk
          /\ IsTarGz =>
                \A f \in DOMAIN disk :
                    disk'[f] = disk[f]
                    \/ (ar_pos < Len(container.entries) /\ f = TarOutput(ar_pos + 1))
          /\ ~ar_res'.ok

\* C11: unpack returns Ok only after the whole extraction, or Err at the
\* first failing step, after which it does nothing more; on Err what it had
\* written below tmp_dir (the entries of a partly unpacked tar, a created and
\* possibly partly copied zip output file) is left in place.
Thm_C11 ==
    /\ [](C11_WholeOnOk /\ C11_LeftInPlace)
    /\ [][C11_NoRetryNoRollback]_vars

\* a zip copy failed midway: the output file holds the first byte of two
Witness_C11 ==
    /\ IsZip
    /\ ar_pc = "failed"
    /\ ar_res = IoErr("copy")
    /\ ZipOutput \in DOMAIN disk
    /\ Len(disk[ZipOutput]) = 1
    /\ disk # disk0

====
